---------------------------- MODULE Spec2Model ----------------------------
(***************************************************************************)
(* A model of be-music-cabinet/src/options/root_bigpack.rs: the first      *)
(* character classifier, the bucket splitter, the two bucket mergers, the  *)
(* cross-root mover, the flattener, the same-name merger and the media     *)
(* dedup pass.                                                             *)
(*                                                                         *)
(* A character is a one-character string (or a token "Uxxxx" standing for  *)
(* the Unicode scalar value xxxx); a name is a sequence of characters; a   *)
(* path is a sequence of names.  The filesystem is a function from the     *)
(* paths that exist to [is_dir, len].                                      *)
(***************************************************************************)
EXTENDS Integers, Sequences, FiniteSets, TLC

VARIABLES
    op,             \* the operation that is running
    pc,             \* its position
    ret,            \* "none" while running, then "ok", "err" or "panic"
    fs,             \* the filesystem: path -> [is_dir, len]
    fs0,            \* the filesystem when the operation was called
    arg_from,       \* first path argument, as the string that was passed
    arg_to,         \* second path argument (move operations)
    name_arg,       \* argument of first_char_rules_find
    label,          \* its result
    todo,           \* entries of the open read_dir stream not yet returned
    dir_names,      \* Vec<String> collected from a listing, in listing order
    pairs,          \* Vec of pending merge pairs
    input,          \* the line read from stdin
    taken,          \* how many pairs the execution loop has taken
    prim,           \* how the merge primitive treats its source and conflicts
    calls,          \* log of the mutating calls made: [f, a, b]
    move_count,     \* move_works_in_pack's counter
    rule,           \* the rule table of the dedup pass
    remove_pairs,   \* Vec<(file_path, replacing_file_path)>
    removed_files,  \* HashSet<replacing_file_path>
    root_dir_path,  \* move_out_works: the folder whose works are being moved
    sub_entries     \* entries of its open read_dir stream not yet returned

vars == <<op, pc, ret, fs, fs0, arg_from, arg_to, name_arg, label, todo,
          dir_names, pairs, input, taken, prim, calls, move_count, rule, remove_pairs,
          removed_files, root_dir_path, sub_entries>>

-----------------------------------------------------------------------------
(* Bounds *)

MaxNameLen == 3      \* longest name given to first_char_rules_find
MaxKids == 2         \* most entries in the directory that is split
MaxDirs == 5         \* most folders in the directory merge_split_folders scans
MaxFiles == 4        \* most entries in a work folder that is deduplicated

-----------------------------------------------------------------------------
(* Characters and strings *)

\* The printable ASCII characters in code order, U+0020 .. U+007E.
AsciiTable ==
    <<" ", "!", "U0022", "#", "$", "%", "&", "'", "(", ")", "*", "+", ",", "-",
      ".", "/", "0", "1", "2", "3", "4", "5", "6", "7", "8", "9", ":", ";",
      "<", "=", ">", "?", "@", "A", "B", "C", "D", "E", "F", "G", "H", "I",
      "J", "K", "L", "M", "N", "O", "P", "Q", "R", "S", "T", "U", "V", "W",
      "X", "Y", "Z", "[", "U005C", "]", "^", "_", "U0060", "a", "b", "c", "d", "e",
      "f", "g", "h", "i", "j", "k", "l", "m", "n", "o", "p", "q", "r", "s",
      "t", "u", "v", "w", "x", "y", "z", "{", "|", "}", "~">>

\* The other characters the model uses, with their scalar values.
NonAsciiTable ==
    <<<<"U000A", 10>>,     <<"U00E9", 233>>,    <<"U303F", 12351>>,  <<"U3040", 12352>>,
      <<"U3042", 12354>>,  <<"U309F", 12447>>,  <<"U30A0", 12448>>,
      <<"U30A2", 12450>>,  <<"U30FF", 12543>>,  <<"U3100", 12544>>,
      <<"U4DFF", 19967>>,  <<"U4E00", 19968>>,  <<"U4E2D", 20013>>,
      <<"U5047", 20551>>,  <<"U5B57", 23383>>,  <<"U5E73", 24179>>,
      <<"U7247", 29255>>,  <<"U9FA5", 40869>>,  <<"U9FA6", 40870>>,
      <<"UFF11", 65297>>,  <<"U1F3B5", 127925>>>>

\* the scalar value of every character of the two tables
OrdMap ==
    [c \in {AsciiTable[i] : i \in DOMAIN AsciiTable}
            \cup {NonAsciiTable[i][1] : i \in DOMAIN NonAsciiTable} |->
        IF \E i \in DOMAIN AsciiTable : AsciiTable[i] = c
        THEN 31 + (CHOOSE i \in DOMAIN AsciiTable : AsciiTable[i] = c)
        ELSE NonAsciiTable[CHOOSE i \in DOMAIN NonAsciiTable :
                               NonAsciiTable[i][1] = c][2]]

\* char as u32
Ord(c) == OrdMap[c]

\* char::is_ascii_digit
is_ascii_digit(n) == 48 <= n /\ n <= 57

\* faulty variant: upper-casing forgotten
to_ascii_uppercase_id(n) == n

\* char::to_ascii_uppercase, on scalar values
to_ascii_uppercase(n) == IF 97 <= n /\ n <= 122 THEN n - 32 ELSE n

\* (lo..=hi).contains(&c)
InRange(lo, hi, n) == lo <= n /\ n <= hi

\* Regex [\u{lo}-\u{hi}]+ matched against a one-character string
ReIsMatch(lo, hi, n) == lo <= n /\ n <= hi

RE_JAPANESE_HIRAGANA(n) == ReIsMatch(12352, 12447, n)
RE_JAPANESE_KATAKANA(n) == ReIsMatch(12448, 12543, n)
RE_CHINESE_CHARACTER(n) == ReIsMatch(19968, 40869, n)

-----------------------------------------------------------------------------
(* first_char_rules_find *)

\* FIRST_CHAR_RULES[i].name
RuleName(i) ==
    CASE i = 1  -> <<"0", "-", "9">>
      [] i = 2  -> <<"A", "B", "C", "D">>
      [] i = 3  -> <<"E", "F", "G", "H", "I", "J", "K">>
      [] i = 4  -> <<"L", "M", "N", "O", "P", "Q">>
      [] i = 5  -> <<"R", "S", "T">>
      [] i = 6  -> <<"U", "V", "W", "X", "Y", "Z">>
      [] i = 7  -> <<"U5E73", "U5047">>
      [] i = 8  -> <<"U7247", "U5047">>
      [] i = 9  -> <<"U5B57">>
      [] i = 10 -> <<"+">>

\* (FIRST_CHAR_RULES[i].func)(name): name.chars().next().map(..).unwrap_or(false)
RuleFunc(i, name) ==
    LET first(P(_)) == IF name = <<>> THEN FALSE ELSE P(Ord(Head(name)))
        r1(n) == is_ascii_digit(n)
        r2(n) == InRange(Ord("A"), Ord("D"), to_ascii_uppercase(n))
        r3(n) == InRange(Ord("E"), Ord("K"), to_ascii_uppercase(n))
        r4(n) == InRange(Ord("L"), Ord("Q"), to_ascii_uppercase(n))
        r5(n) == InRange(Ord("R"), Ord("T"), to_ascii_uppercase(n))
        r6(n) == InRange(Ord("U"), Ord("Z"), to_ascii_uppercase(n))
    IN  CASE i = 1  -> first(r1)
          [] i = 2  -> first(r2)
          [] i = 3  -> first(r3)
          [] i = 4  -> first(r4)
          [] i = 5  -> first(r5)
          [] i = 6  -> first(r6)
          [] i = 7  -> first(RE_JAPANESE_HIRAGANA)
          [] i = 8  -> first(RE_JAPANESE_KATAKANA)
          [] i = 9  -> first(RE_CHINESE_CHARACTER)
          [] i = 10 -> name # <<>>

NumRules == 10

Uncategorized == <<"U", "n", "c", "a", "t", "e", "g", "o", "r", "i", "z", "e", "d">>

\* for rule in FIRST_CHAR_RULES { if (rule.func)(name) { return rule.name } }
RECURSIVE FindFrom(_, _)
FindFrom(i, name) ==
    IF i > NumRules THEN Uncategorized
    ELSE IF RuleFunc(i, name) THEN RuleName(i)
    ELSE FindFrom(i + 1, name)

first_char_rules_find(name) == FindFrom(1, name)

-----------------------------------------------------------------------------
(* Inputs of the classifier *)

\* First characters: both ends of every range the rules test, their
\* neighbours, and characters outside every range.
ClassifyChars ==
    {"/", "0", "5", "9", ":", "@", "A", "D", "E", "K", "L", "Q", "R", "T", "U",
     "Z", "[", "U0060", "a", "d", "e", "k", "l", "q", "r", "t", "u", "z", "{",
     " ", "+", "U00E9", "U303F", "U3040", "U309F", "U30A0", "U30FF", "U3100",
     "U4DFF", "U4E00", "U9FA5", "U9FA6", "UFF11", "U1F3B5"}

TailChars == {"0", "a", "Z", "U3042", " "}

SeqsUpTo(S, n) == UNION {[1..k -> S] : k \in 0..n}

ClassifyNames ==
    {<<>>} \cup {<<c>> \o t : c \in ClassifyChars,
                              t \in SeqsUpTo(TailChars, MaxNameLen - 1)}

-----------------------------------------------------------------------------
(* Strings *)

Last(s) == s[Len(s)]
Front(s) == SubSeq(s, 1, Len(s) - 1)

\* str::ends_with(char)
ends_with(s, c) == s # <<>> /\ Last(s) = c

\* str::starts_with(&str)
starts_with(s, prefix) ==
    Len(prefix) <= Len(s) /\ SubSeq(s, 1, Len(prefix)) = prefix

\* str::contains(&str)
contains(s, t) ==
    \E i \in 1..(Len(s) - Len(t) + 1) : SubSeq(s, i, i + Len(t) - 1) = t

\* format!("{root_folder_name} [{rule}]")
BucketDirName(root_folder_name, rule_name) ==
    root_folder_name \o <<" ", "[">> \o rule_name \o <<"]">>

\* format!("{name} [")
Starter(name) == name \o <<" ", "[">>

-----------------------------------------------------------------------------
(* Paths.  A path argument is the string that was passed; Components gives  *)
(* the names it walks through.                                              *)

None == <<"None">>

RECURSIVE SplitSlash(_, _, _)
SplitSlash(s, cur, acc) ==
    IF s = <<>> THEN (IF cur = <<>> THEN acc ELSE Append(acc, cur))
    ELSE IF Head(s) = "/"
         THEN SplitSlash(Tail(s), <<>>, IF cur = <<>> THEN acc ELSE Append(acc, cur))
         ELSE SplitSlash(Tail(s), Append(cur, Head(s)), acc)

\* Path::components: repeated and trailing separators are dropped
Components(s) == SplitSlash(s, <<>>, <<>>)

DotDot == <<".", ".">>

\* Path::file_name: the last component, None when the path ends in ".."
\* or has no component
file_name(s) ==
    LET c == Components(s)
    IN  IF c = <<>> \/ Last(c) = DotDot THEN None ELSE Last(c)

\* Path::parent: the path without its last component
parent(s) == LET c == Components(s) IN IF c = <<>> THEN None ELSE Front(c)

\* Path::join(name)
join(p, name) == Append(p, name)

-----------------------------------------------------------------------------
(* The filesystem *)

DirEntry == [is_dir |-> TRUE, len |-> 0]
FileEntry(n) == [is_dir |-> FALSE, len |-> n]

\* Path::exists; the working directory <<>> always exists
exists(f, p) == p = <<>> \/ p \in DOMAIN f

\* Path::is_dir
is_dir(f, p) == p = <<>> \/ (p \in DOMAIN f /\ f[p].is_dir)

\* Path::is_file
is_file(f, p) == p \in DOMAIN f /\ ~f[p].is_dir

\* q lies strictly below p
Below(p, q) == Len(q) > Len(p) /\ SubSeq(q, 1, Len(p)) = p

\* fs::read_dir(p): the names of the direct children of p
read_dir(f, p) == {Last(q) : q \in {x \in DOMAIN f : Below(p, x) /\ Len(x) = Len(p) + 1}}

\* whether fs::read_dir(p) opens a listing: p must be a directory, and the
\* empty path, which Path::parent gives for a path of one relative
\* component, is no path the system can open (opendir("") is ENOENT)
read_dir_ok(f, p) == p # <<>> /\ is_dir(f, p)

\* the paths of f without those in S
Without(f, S) == [q \in DOMAIN f \ S |-> f[q]]

\* fs::create_dir(p)
create_dir(f, p) == (p :> DirEntry) @@ f

\* whether fs::rename(a, b) succeeds: b's directory must be a directory;
\* a file replaces a file, a directory replaces an empty directory
rename_ok(f, a, b) ==
    /\ a \in DOMAIN f
    /\ is_dir(f, Front(b))
    /\ b \in DOMAIN f =>
          /\ f[a].is_dir = f[b].is_dir
          /\ f[b].is_dir => read_dir(f, b) = {}

\* fs::rename(a, b): a and everything below it now lives at b
rename(f, a, b) ==
    LET moved == {q \in DOMAIN f : q = a \/ Below(a, q)}
        to(q) == b \o SubSeq(q, Len(a) + 1, Len(q))
        rest == Without(f, moved \cup {b})
    IN  [q \in {to(x) : x \in moved} |->
            f[CHOOSE x \in moved : to(x) = q]] @@ rest

\* fs::remove_file(p)
remove_file(f, p) == Without(f, {p})

-----------------------------------------------------------------------------
(* Building states *)

\* the filesystem holding exactly the <<path, entry>> pairs of S
MkFs(S) == [q \in {e[1] : e \in S} |-> (CHOOSE e \in S : e[1] = q)[2]]

\* a path as the string that names it
RECURSIVE PathStr(_)
PathStr(p) ==
    IF p = <<>> THEN <<>>
    ELSE IF Len(p) = 1 THEN p[1]
    ELSE p[1] \o <<"/">> \o PathStr(Tail(p))

\* the subsets of S with at most n elements
SubsetsUpTo(S, n) == {T \in SUBSET S : Cardinality(T) <= n}

\* every variable but the operation's inputs, as a call finds them
Fresh(o) ==
    /\ op = o
    /\ pc = "start"
    /\ ret = "none"
    /\ label = None
    /\ todo = {}
    /\ dir_names = <<>>
    /\ pairs = <<>>
    /\ input = None
    /\ taken = 0
    /\ prim = None
    /\ calls = <<>>
    /\ move_count = 0
    /\ remove_pairs = <<>>
    /\ removed_files = {}
    /\ root_dir_path = None
    /\ sub_entries = {}

NoFs == /\ fs = <<>>
        /\ fs0 = <<>>
        /\ arg_from = <<>>
        /\ arg_to = <<>>
        /\ rule = <<>>

\* the operation returns r
Return(r) == pc' = "done" /\ ret' = r

-----------------------------------------------------------------------------
(* first_char_rules_find as an operation *)

Init_Classify ==
    /\ Fresh("classify")
    /\ NoFs
    /\ name_arg \in ClassifyNames

Classify ==
    /\ op = "classify" /\ pc = "start"
    /\ label' = first_char_rules_find(name_arg)
    /\ Return("ok")
    /\ UNCHANGED <<op, fs, fs0, arg_from, arg_to, root_dir_path,
                   sub_entries, name_arg, todo, dir_names,
                   pairs, input, taken, prim, calls, move_count, rule, remove_pairs,
                   removed_files>>

Next_Classify == Classify

SpecClassify == Init_Classify /\ [][Next_Classify]_vars

\* The label the classifier is to give, read off the ranges of characters.
C1_Label(name) ==
    LET n == Ord(Head(name))
        letter(lo, hi) == \/ (Ord(lo) <= n /\ n <= Ord(hi))
                          \/ (Ord(lo) + 32 <= n /\ n <= Ord(hi) + 32)
    IN  IF name = <<>> THEN Uncategorized
        ELSE IF Ord("0") <= n /\ n <= Ord("9") THEN <<"0", "-", "9">>
        ELSE IF letter("A", "D") THEN <<"A", "B", "C", "D">>
        ELSE IF letter("E", "K") THEN <<"E", "F", "G", "H", "I", "J", "K">>
        ELSE IF letter("L", "Q") THEN <<"L", "M", "N", "O", "P", "Q">>
        ELSE IF letter("R", "T") THEN <<"R", "S", "T">>
        ELSE IF letter("U", "Z") THEN <<"U", "V", "W", "X", "Y", "Z">>
        ELSE IF 12352 <= n /\ n <= 12447 THEN <<"U5E73", "U5047">>
        ELSE IF 12448 <= n /\ n <= 12543 THEN <<"U7247", "U5047">>
        ELSE IF 19968 <= n /\ n <= 40869 THEN <<"U5B57">>
        ELSE <<"+">>

\* C1: for every name the classifier returns the label of the first rule
\* (digit, A-D, E-K, L-Q, R-T, U-Z with lower case folded in, hiragana,
\* katakana, CJK, then "+") that holds of the first character, and
\* "Uncategorized" exactly for the empty name.
Thm_C1 ==
    (op = "classify" /\ pc = "done") =>
        /\ label = C1_Label(name_arg)
        /\ (label = Uncategorized) <=> (name_arg = <<>>)

\* a lower-case letter has been classified into its letter bucket
Wit_C1 ==
    /\ op = "classify" /\ pc = "done"
    /\ name_arg # <<>> /\ Head(name_arg) = "k"
    /\ label = <<"E", "F", "G", "H", "I", "J", "K">>

-----------------------------------------------------------------------------
(* split_folders_with_first_char *)

P == <<<<"p">>>>                 \* the parent directory, "p"
NameR == <<"R">>
NameRb == <<"R", "]">>

\* faulty variant: the check for a trailing ']' left out
split_precheck_no_bracket(f, arg) ==
    IF file_name(arg) = None THEN "err"
    ELSE IF ~is_dir(f, Components(arg)) THEN "err"
    ELSE "ok"

\* the result of the checks made before the listing is opened
split_precheck(f, arg) ==
    IF file_name(arg) = None THEN "err"
    ELSE IF ~is_dir(f, Components(arg)) THEN "err"
    ELSE IF ends_with(arg, "]") THEN "err"
    ELSE IF parent(arg) = None THEN "err"
    ELSE "ok"

\* faulty variant: the bucket is made inside the root instead of beside it
split_target_dir_in_root(arg, element_name) ==
    join(Components(arg),
         BucketDirName(file_name(arg), first_char_rules_find(element_name)))

\* parent_dir.join(format!("{root_folder_name} [{rule}]"))
split_target_dir(arg, element_name) ==
    join(parent(arg),
         BucketDirName(file_name(arg), first_char_rules_find(element_name)))

Call(f, a, b) == [f |-> f, a |-> a, b |-> b]

\* names the split directory may hold: two of one bucket, and one each of
\* four other buckets
KidPool == {<<"1">>, <<"a", "b">>, <<"B">>, <<"U3042">>, <<"~">>}

\* an entry is a file, or a directory holding one file
KidKinds == {"file", "dir"}

KidEntries(dir, name, kind) ==
    IF kind = "file" THEN {<<join(dir, name), FileEntry(1)>>}
    ELSE {<<join(dir, name), DirEntry>>,
          <<join(join(dir, name), <<"x">>), FileEntry(1)>>}

\* what the parent may already hold under the name of the "0-9" bucket
PreKinds == {"none", "empty", "file1", "emptydir1", "fulldir1", "notdir"}

PreEntries(rn, kind) ==
    LET b == join(P, BucketDirName(rn, <<"0", "-", "9">>))
        one == join(b, <<"1">>)
    IN  CASE kind = "none" -> {}
          [] kind = "empty" -> {<<b, DirEntry>>}
          [] kind = "file1" -> {<<b, DirEntry>>, <<one, FileEntry(2)>>}
          [] kind = "emptydir1" -> {<<b, DirEntry>>, <<one, DirEntry>>}
          [] kind = "fulldir1" -> {<<b, DirEntry>>, <<one, DirEntry>>,
                                   <<join(one, <<"y">>), FileEntry(2)>>}
          [] kind = "notdir" -> {<<b, FileEntry(2)>>}

\* the path strings split is called with: the directory with and without a
\* trailing separator, a file, a missing entry, a path ending in "..", ""
SplitArgs ==
    {PathStr(join(P, NameR)), PathStr(join(P, NameR)) \o <<"/">>,
     PathStr(join(P, NameRb)), PathStr(join(P, NameRb)) \o <<"/">>,
     PathStr(join(P, <<"F">>)), PathStr(join(P, DotDot)), <<>>}

Init_Split ==
    /\ Fresh("split")
    /\ \E rn \in {NameR, NameRb}, pre \in PreKinds :
       \E kids \in SubsetsUpTo(KidPool, MaxKids) :
       \E kind \in [kids -> KidKinds] :
          fs = MkFs({<<P, DirEntry>>, <<join(P, rn), DirEntry>>,
                     <<join(P, <<"F">>), FileEntry(1)>>}
                    \cup PreEntries(rn, pre)
                    \cup UNION {KidEntries(join(P, rn), k, kind[k]) : k \in kids})
    /\ fs0 = fs
    /\ arg_from \in SplitArgs
    /\ arg_to = <<>>
    /\ name_arg = <<>>
    /\ rule = <<>>

\* lines 126-150: the checks, then the listing is opened
SplitBegin ==
    /\ op = "split" /\ pc = "start"
    /\ IF split_precheck(fs, arg_from) = "err"
       THEN Return("err") /\ todo' = todo
       ELSE /\ todo' = read_dir(fs, Components(arg_from))
            /\ pc' = "loop" /\ ret' = ret
    /\ UNCHANGED <<op, fs, fs0, arg_from, arg_to, root_dir_path,
                   sub_entries, name_arg, label, dir_names,
                   pairs, input, taken, prim, calls, move_count, rule, remove_pairs,
                   removed_files>>

\* lines 151-167: one entry of the listing
SplitStep ==
    /\ op = "split" /\ pc = "loop"
    /\ \E element_name \in todo :
        LET element_path == join(Components(arg_from), element_name)
            target_dir == split_target_dir(arg_from, element_name)
            make == ~exists(fs, target_dir)
            f1 == IF make THEN create_dir(fs, target_dir) ELSE fs
            c1 == IF make THEN Append(calls, Call("create_dir", target_dir, <<>>))
                  ELSE calls
            target_path == join(target_dir, element_name)
        IN  IF rename_ok(f1, element_path, target_path)
            THEN /\ fs' = rename(f1, element_path, target_path)
                 /\ calls' = Append(c1, Call("rename", element_path, target_path))
                 /\ todo' = todo \ {element_name}
                 /\ UNCHANGED <<pc, ret>>
            ELSE /\ fs' = f1
                 /\ calls' = c1
                 /\ todo' = todo
                 /\ Return("err")
    /\ UNCHANGED <<op, fs0, arg_from, arg_to, root_dir_path,
                   sub_entries, name_arg, label, dir_names,
                   pairs, input, taken, prim, move_count, rule, remove_pairs, removed_files>>

\* line 169: the listing is exhausted
SplitReturn ==
    /\ op = "split" /\ pc = "loop" /\ todo = {}
    /\ Return("ok")
    /\ UNCHANGED <<op, fs, fs0, arg_from, arg_to, root_dir_path,
                   sub_entries, name_arg, label, todo,
                   dir_names, pairs, input, taken, prim, calls, move_count, rule,
                   remove_pairs, removed_files>>

Next_Split == SplitBegin \/ SplitStep \/ SplitReturn

SpecSplit == Init_Split /\ [][Next_Split]_vars

\* the calls of f logged so far
CallsOf(f) == {i \in DOMAIN calls : calls[i].f = f}

\* C2: when split returns success for root R with parent P, every entry c
\* that was a direct child of R at the call is now P/"<R-name> [<label of
\* c>]"/c with all it held, was renamed exactly once, R is empty, and every
\* bucket directory that was created carries the label of some child.
Thm_C2 ==
    (op = "split" /\ ret = "ok") =>
        LET R == Components(arg_from)
            kids == read_dir(fs0, R)
            home(c) == join(join(Front(R), BucketDirName(Last(R), C1_Label(c))), c)
        IN  /\ \A c \in kids :
                 /\ home(c) \in DOMAIN fs
                 /\ fs[home(c)] = fs0[join(R, c)]
                 /\ \A q \in DOMAIN fs0 : Below(join(R, c), q) =>
                        LET q2 == home(c) \o SubSeq(q, Len(R) + 2, Len(q))
                        IN  q2 \in DOMAIN fs /\ fs[q2] = fs0[q]
                 /\ Cardinality({i \in CallsOf("rename") : calls[i].a = join(R, c)}) = 1
            /\ Cardinality(CallsOf("rename")) = Cardinality(kids)
            /\ read_dir(fs, R) = {}
            /\ \A i \in CallsOf("create_dir") :
                 \E c \in kids :
                    calls[i].a = join(Front(R), BucketDirName(Last(R), C1_Label(c)))

\* a split of two children of one bucket and of a directory has succeeded,
\* creating a bucket
Wit_C2 ==
    /\ op = "split" /\ ret = "ok"
    /\ Cardinality(read_dir(fs0, Components(arg_from))) >= 2
    /\ \E c \in read_dir(fs0, Components(arg_from)) :
          fs0[join(Components(arg_from), c)].is_dir
    /\ CallsOf("create_dir") # {}

\* C9: when the root path is not a directory or its last character is ']',
\* split returns an error and has created no directory and moved no entry.
Thm_C9 ==
    (op = "split" /\ (~is_dir(fs0, Components(arg_from)) \/ ends_with(arg_from, "]"))) =>
        /\ fs = fs0
        /\ calls = <<>>
        /\ pc \in {"start", "done"}
        /\ pc = "done" => ret = "err"

\* split has refused a directory with children whose path ends in ']'
Wit_C9 ==
    /\ op = "split" /\ pc = "done" /\ ret = "err"
    /\ ends_with(arg_from, "]")
    /\ is_dir(fs0, Components(arg_from))
    /\ read_dir(fs0, Components(arg_from)) # {}

-----------------------------------------------------------------------------
(* The merge primitive, move_elements_across_dir(from, to, .., ..), by its  *)
(* contract: every entry of from is moved into to, recursing into          *)
(* directories of the same name.  Whether the emptied source is removed,   *)
(* and which file survives a conflict, is the primitive's own policy: prim. *)

Prims == [remove_src : BOOLEAN, prefer_src : BOOLEAN]

\* where q, below src, lands below dst
Landing(src, dst, q) == dst \o SubSeq(q, Len(src) + 1, Len(q))

\* the primitive can do its work: from is a directory, to is a directory or
\* is missing in a directory, and no file meets a directory
merge_ok(f, src, dst) ==
    /\ src \in DOMAIN f /\ f[src].is_dir
    /\ is_dir(f, Front(dst))
    /\ dst \in DOMAIN f => f[dst].is_dir
    /\ \A q \in DOMAIN f : Below(src, q) /\ Landing(src, dst, q) \in DOMAIN f =>
          f[q].is_dir = f[Landing(src, dst, q)].is_dir

merge_dir(f, src, dst, pr) ==
    LET moved == {q \in DOMAIN f : Below(src, q)}
        gone == moved \cup (IF pr.remove_src THEN {src} ELSE {})
        landed == {Landing(src, dst, q) : q \in moved}
        from(q2) == CHOOSE q \in moved : Landing(src, dst, q) = q2
        new == [q2 \in landed \cup {dst} |->
                  IF q2 = dst THEN DirEntry
                  ELSE IF q2 \in DOMAIN f /\ ~pr.prefer_src THEN f[q2]
                  ELSE f[from(q2)]]
    IN  new @@ Without(f, gone)

\* one call of the primitive from a loop: the filesystem and the log after
\* it, and whether it returned Ok
MergeCall(src, dst) ==
    /\ calls' = Append(calls, Call("merge", src, dst))
    /\ IF merge_ok(fs, src, dst)
       THEN fs' = merge_dir(fs, src, dst, prim) /\ UNCHANGED <<pc, ret>>
       ELSE fs' = fs /\ Return("err")

-----------------------------------------------------------------------------
(* The confirmation line *)

\* char::is_whitespace, for the characters of the model
is_whitespace(c) == Ord(c) \in {9, 10, 11, 12, 13, 32}

\* str::trim
RECURSIVE trim_start(_)
trim_start(s) ==
    IF s # <<>> /\ is_whitespace(Head(s)) THEN trim_start(Tail(s)) ELSE s

RECURSIVE trim_end(_)
trim_end(s) ==
    IF s # <<>> /\ is_whitespace(Last(s)) THEN trim_end(Front(s)) ELSE s

trim(s) == trim_end(trim_start(s))

\* str::to_lowercase, for the characters of the model
to_lowercase(s) ==
    [i \in DOMAIN s |->
        IF 65 <= Ord(s[i]) /\ Ord(s[i]) <= 90
        THEN AsciiTable[Ord(s[i]) + 32 - 31] ELSE s[i]]

\* faulty variant: anything but a leading 'n' counts as yes
confirmed_default_yes(line) == ~starts_with(to_lowercase(trim(line)), <<"n">>)

\* input.trim().to_lowercase().starts_with('y')
confirmed(line) == starts_with(to_lowercase(trim(line)), <<"y">>)

NL == "U000A"

\* the lines stdin may give: end of input, an empty line, no, yes, " Yes"
Lines == {<<>>, <<NL>>, <<"n", NL>>, <<"y", NL>>, <<" ", "Y", "e", "s", NL>>}

\* lines 203-210, 307-314, 685-692: read the line; without a yes, return
Confirm ==
    /\ op \in {"undo", "mergeB", "sameName"} /\ pc = "prompt"
    /\ \E line \in Lines :
        /\ input' = line
        /\ IF ~confirmed(line)
           THEN Return("ok") /\ prim' = prim
           ELSE pc' = "exec" /\ ret' = ret /\ prim' \in Prims
    /\ UNCHANGED <<op, fs, fs0, arg_from, arg_to, root_dir_path,
                   sub_entries, name_arg, label, todo,
                   dir_names, pairs, taken, calls, move_count, rule,
                   remove_pairs, removed_files>>

\* faulty variant: merge_split_folders reading its pair the other way round
exec_args_bucket_to_base(o, pair, root) ==
    CASE o = "undo" -> <<pair[1], pair[2]>>
      [] o = "mergeB" -> <<join(root, pair[1]), join(root, pair[2])>>
      [] o = "sameName" -> <<pair[2], pair[4]>>

\* the (from, to) paths the execution loop of the running operation passes
\* to the primitive for one pair
\* lines 212-219: for (from_dir, to_dir) in pairs
\* lines 316-326: for (target_dir_name, from_dir_name) in pairs
\* lines 695-707: for (_, from_dir_path, _, target_path) in pairs
exec_args(o, pair, root) ==
    CASE o = "undo" -> <<pair[1], pair[2]>>
      [] o = "mergeB" -> <<join(root, pair[2]), join(root, pair[1])>>
      [] o = "sameName" -> <<pair[2], pair[4]>>

\* one pair of the execution loop
ExecStep ==
    /\ op \in {"undo", "mergeB", "sameName"} /\ pc = "exec"
    /\ taken < Len(pairs)
    /\ LET a == exec_args(op, pairs[taken + 1], Components(arg_from))
       IN  MergeCall(a[1], a[2])
    /\ taken' = taken + 1
    /\ UNCHANGED <<op, fs0, arg_from, arg_to, root_dir_path,
                   sub_entries, name_arg, label, todo,
                   dir_names, pairs, input, prim, move_count, rule,
                   remove_pairs, removed_files>>

\* the execution loop is over
ExecReturn ==
    /\ op \in {"undo", "mergeB", "sameName"} /\ pc = "exec"
    /\ taken = Len(pairs)
    /\ Return("ok")
    /\ UNCHANGED <<op, fs, fs0, arg_from, arg_to, root_dir_path,
                   sub_entries, name_arg, label, todo,
                   dir_names, pairs, input, taken, prim, calls, move_count,
                   rule, remove_pairs, removed_files>>

\* the orders in which a listing may return the names of S
Perms(S) ==
    {s \in [1..Cardinality(S) -> S] : \A i, j \in DOMAIN s : i # j => s[i] # s[j]}

-----------------------------------------------------------------------------
(* merge_split_folders *)

Panic == <<"panic">>

\* char::len_utf8
len_utf8(c) ==
    LET n == Ord(c)
    IN  IF n < 128 THEN 1 ELSE IF n < 2048 THEN 2 ELSE IF n < 65536 THEN 3 ELSE 4

\* the byte offset of the i-th character of s (of the end, for i = Len(s)+1)
RECURSIVE byte_offset(_, _)
byte_offset(s, i) ==
    IF i = 1 THEN 0 ELSE byte_offset(s, i - 1) + len_utf8(s[i - 1])

\* str::rfind(char): the byte offset of the last occurrence, -1 for None
rfind(s, c) ==
    LET at == {i \in DOMAIN s : s[i] = c}
    IN  IF at = {} THEN -1
        ELSE byte_offset(s, CHOOSE i \in at : \A j \in at : j <= i)

\* &s[..n]: panics unless n is a character boundary of s
slice_to(s, n) ==
    LET cut == {i \in 0..Len(s) : byte_offset(s, i + 1) = n}
    IN  IF cut = {} THEN Panic ELSE SubSeq(s, 1, CHOOSE i \in cut : TRUE)

\* &dir_name[..bracket_pos - 1].  bracket_pos is a usize: at 0 the
\* subtraction panics in a debug build and wraps to usize::MAX in a release
\* build, where the slice then panics as out of range.
name_without_artist(dir_name, bracket_pos) ==
    IF bracket_pos = 0 THEN Panic ELSE slice_to(dir_name, bracket_pos - 1)

Skip == [kind |-> "skip", pair |-> <<>>]
Panicked == [kind |-> "panic", pair |-> <<>>]

\* lines 244-281, for one dir_name: skipped, a panic, or the pair to push
collect_one(f, root, names, dir_name) ==
    IF ~is_dir(f, join(root, dir_name)) THEN Skip
    ELSE IF ~ends_with(dir_name, "]") THEN Skip
    ELSE IF rfind(dir_name, "[") = -1 THEN Skip
    ELSE LET base == name_without_artist(dir_name, rfind(dir_name, "["))
             with_starter == {i \in DOMAIN names : starts_with(names[i], Starter(base))}
         IN  IF base = Panic THEN Panicked
             ELSE IF base = <<>> THEN Skip
             ELSE IF ~is_dir(f, join(root, base)) THEN Skip
             ELSE IF Cardinality(with_starter) > 2 THEN Skip
             ELSE [kind |-> "pair", pair |-> <<dir_name, base>>]

\* lines 241-282: for dir_name in &dir_names
RECURSIVE collect_pairs(_, _, _, _, _)
collect_pairs(f, root, names, i, acc) ==
    IF i > Len(names) THEN [panic |-> FALSE, pairs |-> acc]
    ELSE LET r == collect_one(f, root, names, names[i])
         IN  IF r.kind = "panic" THEN [panic |-> TRUE, pairs |-> <<>>]
             ELSE IF r.kind = "skip" THEN collect_pairs(f, root, names, i + 1, acc)
             ELSE collect_pairs(f, root, names, i + 1, Append(acc, r.pair))

\* lines 284-292: the names pushed to duplicate_list
RECURSIVE duplicate_list(_, _, _)
duplicate_list(ps, i, last_from_dir_name) ==
    IF i > Len(ps) THEN <<>>
    ELSE (IF last_from_dir_name = ps[i][2] THEN <<ps[i][2]>> ELSE <<>>)
         \o duplicate_list(ps, i + 1, ps[i][2])

RootM == <<<<"r">>>>

Sp(a, b) == a \o <<" ", "[">> \o b \o <<"]">>

\* the folders the scanned directory may hold: bases B and C, their
\* bucketed folders, and bucketed names with nothing before the bracket
MergePool ==
    {<<"B">>, Sp(<<"B">>, <<"x">>), Sp(<<"B">>, <<"y">>), Sp(<<"B">>, <<"z">>),
     <<"C">>, Sp(<<"C">>, <<"z">>),
     <<"[", "A", "]">>, <<"x", "[", "A", "]">>, <<"U3042", "[", "x", "]">>}

\* a folder holds one file, named after whether the folder is bucketed
FolderEntries(root, d) ==
    {<<join(root, d), DirEntry>>,
     <<join(join(root, d), IF ends_with(d, "]") THEN <<"t">> ELSE <<"b">>),
       FileEntry(1)>>}

Init_MergeB ==
    /\ Fresh("mergeB")
    /\ \E dirs \in SubsetsUpTo(MergePool, MaxDirs) :
          fs = MkFs({<<RootM, DirEntry>>,
                     <<join(RootM, Sp(<<"C">>, <<"w">>)), FileEntry(1)>>}
                    \cup UNION {FolderEntries(RootM, d) : d \in dirs})
    /\ fs0 = fs
    /\ arg_from = PathStr(RootM)
    /\ arg_to = <<>>
    /\ name_arg = <<>>
    /\ rule = <<>>

\* lines 227-300: list the folders, collect the pairs, check for duplicates
MergeBScan ==
    /\ op = "mergeB" /\ pc = "start"
    /\ LET root == Components(arg_from)
       IN  \E order \in Perms({d \in read_dir(fs, root) : is_dir(fs, join(root, d))}) :
            LET r == collect_pairs(fs, root, order, 1, <<>>)
            IN  /\ dir_names' = order
                /\ IF r.panic
                   THEN Return("panic") /\ pairs' = pairs
                   ELSE /\ pairs' = r.pairs
                        /\ IF duplicate_list(r.pairs, 1, <<>>) # <<>>
                           THEN Return("err")
                           ELSE pc' = "prompt" /\ ret' = ret
    /\ UNCHANGED <<op, fs, fs0, arg_from, arg_to, root_dir_path,
                   sub_entries, name_arg, label, todo,
                   input, taken, prim, calls, move_count, rule, remove_pairs,
                   removed_files>>

-----------------------------------------------------------------------------
(* undo_split_pack *)

\* what the parent may hold beside the root: buckets of the root, names
\* that only look like one, and a file with a bucket's name
UndoPool ==
    {Sp(NameR, <<"0", "-", "9">>), Sp(NameR, <<"A", "B", "C", "D">>),
     NameR \o <<" ", "[", "x">>, Sp(<<"R", "x">>, <<"y">>), Sp(NameR, <<"+">>)}

UndoEntries(d) ==
    IF d = Sp(NameR, <<"+">>) THEN {<<join(P, d), FileEntry(1)>>}
    ELSE {<<join(P, d), DirEntry>>, <<join(join(P, d), <<"s">>), FileEntry(1)>>}

UndoArgs ==
    {PathStr(join(P, NameR)), PathStr(join(P, NameR)) \o <<"/">>,
     PathStr(join(P, DotDot))}

Init_Undo ==
    /\ Fresh("undo")
    /\ \E sibs \in SubsetsUpTo(UndoPool, MaxKids) :
          fs = MkFs({<<P, DirEntry>>, <<join(P, NameR), DirEntry>>,
                     <<join(join(P, NameR), <<"k">>), FileEntry(1)>>}
                    \cup UNION {UndoEntries(d) : d \in sibs})
    /\ fs0 = fs
    /\ arg_from \in UndoArgs
    /\ arg_to = <<>>
    /\ name_arg = <<>>
    /\ rule = <<>>

\* faulty variant: every folder of the parent that ends in ']' is taken
undo_pairs_any_bracket(order, arg) ==
    LET hit(n) == ends_with(n, "]")
        hits == SelectSeq(order, hit)
    IN  [i \in DOMAIN hits |-> <<join(parent(arg), hits[i]), Components(arg)>>]

\* lines 192-195, over a listing given in order
undo_pairs(order, arg) ==
    LET hit(n) == starts_with(n, Starter(file_name(arg))) /\ ends_with(n, "]")
        hits == SelectSeq(order, hit)
    IN  [i \in DOMAIN hits |-> <<join(parent(arg), hits[i]), Components(arg)>>]

\* lines 174-201: scan the parent for the buckets of the root
UndoScan ==
    /\ op = "undo" /\ pc = "start"
    /\ IF file_name(arg_from) = None \/ ~read_dir_ok(fs, parent(arg_from))
       THEN Return("err") /\ pairs' = pairs
       ELSE \E order \in Perms(read_dir(fs, parent(arg_from))) :
              /\ pairs' = undo_pairs(order, arg_from)
              /\ IF pairs' = <<>>
                 THEN Return("ok")
                 ELSE pc' = "prompt" /\ ret' = ret
    /\ UNCHANGED <<op, fs, fs0, arg_from, arg_to, root_dir_path,
                   sub_entries, name_arg, label, todo,
                   dir_names, input, taken, prim, calls, move_count, rule,
                   remove_pairs, removed_files>>

-----------------------------------------------------------------------------
(* move_works_with_same_name *)

FromRoot == <<<<"a">>>>
ToRoot == <<<<"b">>>>

WorkEntries(root, d) ==
    {<<join(root, d), DirEntry>>, <<join(join(root, d), <<"w">>), FileEntry(1)>>}

FromPool == {<<"A">>, <<"B">>}
ToPool == {<<"x", "A">>, <<"A", "B">>, <<"C">>}

Init_SameName ==
    /\ Fresh("sameName")
    /\ \E fd \in SUBSET FromPool, td \in SUBSET ToPool :
          fs = MkFs({<<FromRoot, DirEntry>>, <<ToRoot, DirEntry>>,
                     <<join(FromRoot, <<"l">>), FileEntry(1)>>}
                    \cup UNION {WorkEntries(FromRoot, d) : d \in fd}
                    \cup UNION {WorkEntries(ToRoot, d) : d \in td})
    /\ fs0 = fs
    /\ arg_from \in {PathStr(FromRoot), <<"n">>}
    /\ arg_to \in {PathStr(ToRoot), <<"n">>}
    /\ name_arg = <<>>
    /\ rule = <<>>

\* lines 663-679: each source folder with the first target folder whose
\* name contains its name
same_name_pairs(from_subdirs, to_subdirs, from, to) ==
    LET has(n) == \E j \in DOMAIN to_subdirs : contains(to_subdirs[j], n)
        first(n) == to_subdirs[CHOOSE j \in DOMAIN to_subdirs :
                       /\ contains(to_subdirs[j], n)
                       /\ \A j2 \in 1..(j - 1) : ~contains(to_subdirs[j2], n)]
        hits == SelectSeq(from_subdirs, has)
    IN  [i \in DOMAIN hits |->
            <<hits[i], join(from, hits[i]), first(hits[i]), join(to, first(hits[i]))>>]

\* lines 617-683: check the roots, list their folders, pair them
SameNameScan ==
    /\ op = "sameName" /\ pc = "start"
    /\ LET from == Components(arg_from)
           to == Components(arg_to)
       IN  IF ~is_dir(fs, from) \/ ~is_dir(fs, to)
           THEN Return("err") /\ pairs' = pairs
           ELSE \E fo \in Perms({d \in read_dir(fs, from) : is_dir(fs, join(from, d))}),
                   tt \in Perms({d \in read_dir(fs, to) : is_dir(fs, join(to, d))}) :
                  /\ pairs' = same_name_pairs(fo, tt, from, to)
                  /\ pc' = "prompt" /\ ret' = ret
    /\ UNCHANGED <<op, fs, fs0, arg_from, arg_to, root_dir_path,
                   sub_entries, name_arg, label, todo,
                   dir_names, input, taken, prim, calls, move_count, rule,
                   remove_pairs, removed_files>>

-----------------------------------------------------------------------------
(* The three operations that ask before they merge *)

Init_Merge == Init_Undo \/ Init_MergeB \/ Init_SameName

Next_Merge ==
    UndoScan \/ MergeBScan \/ SameNameScan \/ Confirm \/ ExecStep \/ ExecReturn

SpecMerge == Init_Merge /\ [][Next_Merge]_vars

\* base is dir_name cut before its last '[' and the character before it
IsBaseOf(base, dir_name) ==
    \E j \in DOMAIN dir_name :
        /\ dir_name[j] = "["
        /\ \A j2 \in (j + 1)..Len(dir_name) : dir_name[j2] # "["
        /\ j >= 2
        /\ base = SubSeq(dir_name, 1, j - 2)

\* C3 (as the claim states it): every merge that merge_split_folders
\* executes has the bucketed child as its source and the base-name folder
\* as its destination.
Cx_C3 ==
    op = "mergeB" =>
        \A i \in CallsOf("merge") :
            /\ ends_with(Last(calls[i].a), "]")
            /\ IsBaseOf(Last(calls[i].b), Last(calls[i].a))

\* C3 (amended): every merge that merge_split_folders executes has the
\* base-name folder "<base>" as the source whose entries are moved and the
\* bracketed child "<base> [..]" as the destination; the bracketed child is
\* never the source of a merge into its base-name folder.
Thm_C3 ==
    op = "mergeB" =>
        \A i \in CallsOf("merge") :
            /\ Front(calls[i].a) = Components(arg_from)
            /\ Front(calls[i].b) = Components(arg_from)
            /\ ends_with(Last(calls[i].b), "]")
            /\ IsBaseOf(Last(calls[i].a), Last(calls[i].b))
            /\ ~IsBaseOf(Last(calls[i].b), Last(calls[i].a))

\* after a yes, the file of base folder B has arrived in "B [x]"
Wit_C3 ==
    /\ op = "mergeB" /\ pc = "done" /\ ret = "ok"
    /\ input # None /\ confirmed(input)
    /\ join(join(RootM, Sp(<<"B">>, <<"x">>)), <<"b">>) \in DOMAIN fs
    /\ join(join(RootM, <<"B">>), <<"b">>) \notin DOMAIN fs

\* C4 (as the claim states it): whenever two collected pairs, at any
\* positions, share the base name, merge_split_folders returns the
\* duplicate error before prompting and merges nothing.
Cx_C4 ==
    (/\ op = "mergeB" /\ pc # "start" /\ ret # "panic"
     /\ \E i, j \in DOMAIN pairs : i < j /\ pairs[i][2] = pairs[j][2]) =>
        /\ pc = "done" /\ ret = "err"
        /\ input = None
        /\ calls = <<>>

\* the line, trimmed and lower-cased, starts with 'y'
SaysYes(line) ==
    \E i \in DOMAIN line :
        /\ line[i] \in {"y", "Y"}
        /\ \A j \in 1..(i - 1) : line[j] \in {" ", NL}

\* C8: in undo_split_pack, merge_split_folders and
\* move_works_with_same_name, when the confirmation line does not start
\* with 'y' after trimming and lower-casing, the operation returns
\* success, the merge primitive is never invoked and the filesystem is as
\* it was at the call.
Thm_C8 ==
    (op \in {"undo", "mergeB", "sameName"} /\ input # None /\ ~SaysYes(input)) =>
        /\ pc = "done" /\ ret = "ok"
        /\ calls = <<>>
        /\ fs = fs0

\* an empty line has declined pending merges
Wit_C8 ==
    /\ op = "undo" /\ pc = "done" /\ ret = "ok"
    /\ input = <<NL>>
    /\ Len(pairs) >= 2
    /\ fs = fs0

\* the folders of the scanned directory, at the call
FoldersAtCall ==
    {d \in read_dir(fs0, Components(arg_from)) :
        is_dir(fs0, join(Components(arg_from), d))}

\* the text before the last '[' of d, minus the character before it
TextBeforeBracket(d) ==
    LET j == CHOOSE x \in DOMAIN d : d[x] = "[" /\ \A y \in (x + 1)..Len(d) : d[y] # "["
    IN  SubSeq(d, 1, j - 2)

\* C10 (as the claim states it): every folder whose name ends with ']' and
\* has an empty base name is skipped: no pair is recorded for it and
\* merge_split_folders does not crash.
Cx_C10 ==
    (op = "mergeB" /\ pc # "start") =>
        \A d \in FoldersAtCall :
            (/\ ends_with(d, "]")
             /\ \E x \in DOMAIN d : d[x] = "["
             /\ TextBeforeBracket(d) = <<>>) =>
                /\ ret # "panic"
                /\ \A i \in DOMAIN pairs : pairs[i][1] # d

-----------------------------------------------------------------------------
(* move_works_in_pack *)

\* what the source root may hold: two work folders and two loose files
MovePool == {<<"A">>, <<"B">>, <<"l">>, <<"m">>}

MoveEntries(d) ==
    IF d \in {<<"l">>, <<"m">>} THEN {<<join(FromRoot, d), FileEntry(1)>>}
    ELSE WorkEntries(FromRoot, d)

\* what the destination root may hold under the name A
DestKinds == {"none", "work", "other", "notdir"}

DestEntries(kind) ==
    LET a == join(ToRoot, <<"A">>)
    IN  CASE kind = "none" -> {}
          [] kind = "work" -> {<<a, DirEntry>>, <<join(a, <<"w">>), FileEntry(2)>>}
          [] kind = "other" -> {<<a, DirEntry>>, <<join(a, <<"v">>), FileEntry(2)>>}
          [] kind = "notdir" -> {<<a, FileEntry(2)>>}

Init_MovePack ==
    /\ Fresh("movePack")
    /\ \E kids \in SubsetsUpTo(MovePool, MaxKids), dk \in DestKinds :
          fs = MkFs({<<FromRoot, DirEntry>>, <<ToRoot, DirEntry>>}
                    \cup DestEntries(dk)
                    \cup UNION {MoveEntries(d) : d \in kids})
    /\ fs0 = fs
    /\ arg_from \in {PathStr(FromRoot), PathStr(FromRoot) \o <<"/">>}
    /\ arg_to \in {PathStr(ToRoot), PathStr(FromRoot), <<"n">>}
    /\ name_arg = <<>>
    /\ rule = <<>>

\* faulty variant: every work is merged into the destination root itself
move_dst_root(root_dir_to, bms_dir_name) == root_dir_to

\* root_dir_to.join(bms_dir_name)
move_dst(root_dir_to, bms_dir_name) == join(root_dir_to, bms_dir_name)

\* lines 337-345: equal roots return at once; else the listing is opened
MoveBegin ==
    /\ op = "movePack" /\ pc = "start"
    /\ IF Components(arg_from) = Components(arg_to)
       THEN Return("ok") /\ UNCHANGED <<todo, prim>>
       ELSE IF ~is_dir(fs, Components(arg_from))
       THEN Return("err") /\ UNCHANGED <<todo, prim>>
       ELSE /\ todo' = read_dir(fs, Components(arg_from))
            /\ prim' \in Prims
            /\ pc' = "loop" /\ ret' = ret
    /\ UNCHANGED <<op, fs, fs0, arg_from, arg_to, root_dir_path,
                   sub_entries, name_arg, label, dir_names,
                   pairs, input, taken, calls, move_count, rule, remove_pairs,
                   removed_files>>

\* lines 347-369: one entry of the listing
MoveStep ==
    /\ op = "movePack" /\ pc = "loop"
    /\ \E bms_dir_name \in todo :
        LET bms_dir == join(Components(arg_from), bms_dir_name)
        IN  /\ todo' = todo \ {bms_dir_name}
            /\ IF ~is_dir(fs, bms_dir)
               THEN UNCHANGED <<fs, calls, pc, ret, move_count>>
               ELSE /\ MergeCall(bms_dir, move_dst(Components(arg_to), bms_dir_name))
                    /\ move_count' = IF merge_ok(fs, bms_dir,
                                           move_dst(Components(arg_to), bms_dir_name))
                                      THEN move_count + 1 ELSE move_count
    /\ UNCHANGED <<op, fs0, arg_from, arg_to, root_dir_path,
                   sub_entries, name_arg, label, dir_names,
                   pairs, input, taken, prim, rule, remove_pairs, removed_files>>

\* lines 371-385: works were moved, or the source root is itself a work
MoveEnd ==
    /\ op = "movePack" /\ pc = "loop" /\ todo = {}
    /\ IF move_count > 0
       THEN Return("ok") /\ UNCHANGED <<fs, calls>>
       ELSE /\ calls' = Append(calls, Call("merge", Components(arg_from),
                                                     Components(arg_to)))
            /\ IF merge_ok(fs, Components(arg_from), Components(arg_to))
               THEN /\ fs' = merge_dir(fs, Components(arg_from),
                                       Components(arg_to), prim)
                    /\ Return("ok")
               ELSE fs' = fs /\ Return("err")
    /\ UNCHANGED <<op, fs0, arg_from, arg_to, root_dir_path,
                   sub_entries, name_arg, label, todo,
                   dir_names, pairs, input, taken, prim, move_count, rule,
                   remove_pairs, removed_files>>

Next_MovePack == MoveBegin \/ MoveStep \/ MoveEnd

SpecMovePack == Init_MovePack /\ [][Next_MovePack]_vars

\* everything src held at the call now lies below dst, and no longer below src
Merged(src, dst) ==
    \A q \in DOMAIN fs0 : Below(src, q) =>
        /\ Landing(src, dst, q) \in DOMAIN fs
        /\ q \notin DOMAIN fs

MergeCallsOf(src, dst) ==
    {i \in CallsOf("merge") : calls[i].a = src /\ calls[i].b = dst}

\* the source root's subdirectories and regular files, at the call
SubdirsAtCall(root) == {d \in read_dir(fs0, root) : fs0[join(root, d)].is_dir}
FilesAtCall(root) == {d \in read_dir(fs0, root) : ~fs0[join(root, d)].is_dir}

\* C5 (as the claim states it): when move_works_in_pack(from, to) with
\* from # to returns success, every direct child of the source root,
\* subdirectory or regular file, has been moved into the destination root.
Cx_C5 ==
    (/\ op = "movePack" /\ ret = "ok"
     /\ Components(arg_from) # Components(arg_to)) =>
        LET from == Components(arg_from)
            to == Components(arg_to)
        IN  /\ \A d \in SubdirsAtCall(from) : Merged(join(from, d), join(to, d))
            /\ \A d \in FilesAtCall(from) :
                  /\ join(to, d) \in DOMAIN fs
                  /\ join(from, d) \notin DOMAIN fs

\* C5 (amended): when move_works_in_pack(from, to) with from # to returns
\* success, every direct subdirectory d of the source root was merged into
\* to/<d> by one call of the primitive; if the source root has at least
\* one subdirectory its regular files are left where they were, moved
\* nowhere; if it has none, the whole source root is merged into the
\* destination root.
Thm_C5 ==
    (/\ op = "movePack" /\ ret = "ok"
     /\ Components(arg_from) # Components(arg_to)) =>
        LET from == Components(arg_from)
            to == Components(arg_to)
        IN  IF SubdirsAtCall(from) # {}
            THEN /\ \A d \in SubdirsAtCall(from) :
                       /\ Merged(join(from, d), join(to, d))
                       /\ is_dir(fs, join(to, d))
                       /\ Cardinality(MergeCallsOf(join(from, d), join(to, d))) = 1
                 /\ Cardinality(CallsOf("merge")) = Cardinality(SubdirsAtCall(from))
                 /\ \A d \in FilesAtCall(from) :
                       /\ join(from, d) \in DOMAIN fs
                       /\ fs[join(from, d)] = fs0[join(from, d)]
                       /\ join(to, d) \notin DOMAIN fs
            ELSE /\ Merged(from, to)
                 /\ calls = <<Call("merge", from, to)>>

\* a source root with a work folder and a loose file has been moved
Wit_C5 ==
    /\ op = "movePack" /\ ret = "ok"
    /\ Components(arg_from) # Components(arg_to)
    /\ SubdirsAtCall(Components(arg_from)) # {}
    /\ FilesAtCall(Components(arg_from)) # {}
    /\ CallsOf("merge") # {}

-----------------------------------------------------------------------------
(* workdir_remove_unneed_media_files *)

Ext(a, b, c) == <<a, b, c>>
mp4 == Ext("m", "p", "4")
avi == Ext("a", "v", "i")
wmv == Ext("w", "m", "v")
mpg == Ext("m", "p", "g")
mpeg == <<"m", "p", "e", "g">>
flac == <<"f", "l", "a", "c">>
wav == Ext("w", "a", "v")
ogg == Ext("o", "g", "g")

RuleEntry(upper_exts, lower_exts) == [upper |-> upper_exts, lower |-> lower_exts]

get_remove_media_rule_oraja ==
    <<RuleEntry(<<mp4>>, <<avi, wmv, mpg, mpeg>>),
      RuleEntry(<<avi>>, <<wmv, mpg, mpeg>>),
      RuleEntry(<<flac, wav>>, <<ogg>>),
      RuleEntry(<<flac>>, <<wav>>),
      RuleEntry(<<mpg>>, <<wmv>>)>>

get_remove_media_rule_wav_fill_flac == <<RuleEntry(<<wav>>, <<flac>>)>>

\* faulty variant: the preset also lets wmv replace mpg
rule_mpg_wmv_both_ways == <<RuleEntry(<<mpg>>, <<wmv>>), RuleEntry(<<wmv>>, <<mpg>>)>>

get_remove_media_rule_mpg_fill_wmv == <<RuleEntry(<<mpg>>, <<wmv>>)>>

get_remove_media_file_rules ==
    <<get_remove_media_rule_oraja, get_remove_media_rule_wav_fill_flac,
      get_remove_media_rule_mpg_fill_wmv>>

\* a rule table passed by the caller (rule: Some(..)), whose first entry
\* names avi on both sides
CallerRule == <<RuleEntry(<<mp4, avi>>, <<avi, wmv>>)>>

RuleTables ==
    {get_remove_media_file_rules[i] : i \in DOMAIN get_remove_media_file_rules}
    \cup {CallerRule}

\* the position of the last '.' of name, 0 if it has none
LastDot(name) ==
    LET at == {i \in DOMAIN name : name[i] = "."}
    IN  IF at = {} THEN 0 ELSE CHOOSE i \in at : \A j \in at : j <= i

\* file_name.rsplit('.').next().unwrap_or("").to_lowercase()
file_ext_of(name) == to_lowercase(SubSeq(name, LastDot(name) + 1, Len(name)))

\* Path::with_extension: a name with no '.', or only a leading one, has no
\* extension to replace
with_extension(path, ext) ==
    LET name == Last(path)
        stem == IF LastDot(name) <= 1 THEN name
                ELSE SubSeq(name, 1, LastDot(name) - 1)
    IN  join(Front(path), stem \o <<".">> \o ext)

\* Vec::contains
vec_contains(v, x) == \E i \in DOMAIN v : v[i] = x

\* faulty variant: an empty superior file counts like any other
is_empty_never(f, file_path) == FALSE

\* metadata.len() == 0
is_empty(f, file_path) == f[file_path].len = 0

\* faulty variant: the set of scheduled targets is not consulted
already_removed_never(rf, replacing_file_path) == FALSE

\* removed_files.contains(&replacing_file_path)
already_removed(rf, replacing_file_path) == replacing_file_path \in rf

\* the scan's two accumulators
Acc(rp, rf) == [remove_pairs |-> rp, removed_files |-> rf]

\* lines 466-478: for lower_ext in lower_exts
RECURSIVE scan_lowers(_, _, _, _, _)
scan_lowers(f, file_path, lower_exts, j, acc) ==
    IF j > Len(lower_exts) THEN acc
    ELSE LET replacing_file_path == with_extension(file_path, lower_exts[j])
         IN  IF ~exists(f, replacing_file_path)
             THEN scan_lowers(f, file_path, lower_exts, j + 1, acc)
             ELSE IF already_removed(acc.removed_files, replacing_file_path)
             THEN scan_lowers(f, file_path, lower_exts, j + 1, acc)
             ELSE scan_lowers(f, file_path, lower_exts, j + 1,
                      Acc(Append(acc.remove_pairs, <<file_path, replacing_file_path>>),
                          acc.removed_files \cup {replacing_file_path}))

\* lines 453-479: for (upper_exts, lower_exts) in rule
RECURSIVE scan_rules(_, _, _, _, _)
scan_rules(f, file_path, rules, i, acc) ==
    IF i > Len(rules) THEN acc
    ELSE IF ~vec_contains(rules[i].upper, file_ext_of(Last(file_path)))
    THEN scan_rules(f, file_path, rules, i + 1, acc)
    ELSE IF is_empty(f, file_path)
    THEN scan_rules(f, file_path, rules, i + 1, acc)
    ELSE scan_rules(f, file_path, rules, i + 1,
                    scan_lowers(f, file_path, rules[i].lower, 1, acc))

\* lines 443-480: while let Some(entry) = entries.next().await
RECURSIVE scan_entries(_, _, _, _, _, _)
scan_entries(f, work_dir, rules, order, n, acc) ==
    IF n > Len(order) THEN acc
    ELSE LET file_path == join(work_dir, order[n])
         IN  IF ~is_file(f, file_path)
             THEN scan_entries(f, work_dir, rules, order, n + 1, acc)
             ELSE scan_entries(f, work_dir, rules, order, n + 1,
                               scan_rules(f, file_path, rules, 1, acc))

WorkDir == <<<<"w">>>>

Track(ext) == <<"t", ".">> \o ext

\* the names a work folder may hold
MediaPool == {Track(mp4), Track(avi), Track(wmv), Track(mpg), Track(flac),
              Track(wav)}

\* an entry is an empty file or a file with content; t.wmv may also be a
\* directory
MediaKinds(name) ==
    {FileEntry(0), FileEntry(1)} \cup (IF name = Track(wmv) THEN {DirEntry} ELSE {})

Init_Dedup ==
    /\ Fresh("dedup")
    /\ \E files \in SubsetsUpTo(MediaPool, MaxFiles) :
       \E kind \in [files -> {FileEntry(0), FileEntry(1), DirEntry}] :
          /\ \A n \in files : kind[n] \in MediaKinds(n)
          /\ fs = MkFs({<<WorkDir, DirEntry>>}
                       \cup {<<join(WorkDir, n), kind[n]>> : n \in files})
    /\ fs0 = fs
    /\ arg_from = PathStr(WorkDir)
    /\ arg_to = <<>>
    /\ name_arg = <<>>
    /\ rule \in RuleTables

\* lines 439-480: the scan of the listing, in the order it is returned
DedupScan ==
    /\ op = "dedup" /\ pc = "start"
    /\ \E order \in Perms(read_dir(fs, Components(arg_from))) :
        LET acc == scan_entries(fs, Components(arg_from), rule, order, 1,
                                Acc(<<>>, {}))
        IN  /\ remove_pairs' = acc.remove_pairs
            /\ removed_files' = acc.removed_files
    /\ pc' = "remove"
    /\ UNCHANGED <<op, ret, fs, fs0, arg_from, arg_to, root_dir_path,
                   sub_entries, name_arg, label, todo,
                   dir_names, pairs, input, taken, prim, calls, move_count, rule>>

\* lines 487-497: one scheduled removal; fs::remove_file fails on a path
\* that is missing or is a directory
DedupRemove ==
    /\ op = "dedup" /\ pc = "remove"
    /\ taken < Len(remove_pairs)
    /\ LET replacing_file_path == remove_pairs[taken + 1][2]
       IN  /\ calls' = Append(calls, Call("remove_file", replacing_file_path, <<>>))
           /\ IF is_file(fs, replacing_file_path)
              THEN fs' = remove_file(fs, replacing_file_path) /\ UNCHANGED <<pc, ret>>
              ELSE fs' = fs /\ Return("err")
    /\ taken' = taken + 1
    /\ UNCHANGED <<op, fs0, arg_from, arg_to, root_dir_path,
                   sub_entries, name_arg, label, todo,
                   dir_names, pairs, input, prim, move_count, rule,
                   remove_pairs, removed_files>>

\* lines 499-530: the recount by extension changes nothing
DedupFinish ==
    /\ op = "dedup" /\ pc = "remove"
    /\ taken = Len(remove_pairs)
    /\ Return("ok")
    /\ UNCHANGED <<op, fs, fs0, arg_from, arg_to, root_dir_path,
                   sub_entries, name_arg, label, todo,
                   dir_names, pairs, input, taken, prim, calls, move_count,
                   rule, remove_pairs, removed_files>>

Next_Dedup == DedupScan \/ DedupRemove \/ DedupFinish

SpecDedup == Init_Dedup /\ [][Next_Dedup]_vars

\* the regular files of the work folder, at the call
MediaAtCall == {n \in read_dir(fs0, WorkDir) : is_file(fs0, join(WorkDir, n))}

\* the extension of t.<ext>
ExtOfTrack(n) == SubSeq(n, 3, Len(n))

\* C6: no file is scheduled on account of a zero-length superior file:
\* every scheduled pair has a reason file of non-zero size; the pass goes
\* on after an empty superior, so that every counterpart of a non-empty
\* superior is scheduled; and under oraja a folder holding only t.mp4 and
\* t.avi schedules t.avi when t.mp4 is non-empty and nothing when it is
\* zero-length.
Thm_C6 ==
    op = "dedup" =>
        /\ \A i \in DOMAIN remove_pairs :
              /\ is_file(fs0, remove_pairs[i][1])
              /\ fs0[remove_pairs[i][1]].len > 0
        /\ pc # "start" =>
              \A n \in MediaAtCall, r \in DOMAIN rule :
                  (/\ fs0[join(WorkDir, n)].len > 0
                   /\ \E u \in DOMAIN rule[r].upper : rule[r].upper[u] = ExtOfTrack(n)) =>
                      \A l \in DOMAIN rule[r].lower :
                          join(WorkDir, Track(rule[r].lower[l])) \in DOMAIN fs0 =>
                              join(WorkDir, Track(rule[r].lower[l])) \in removed_files
        /\ (/\ pc # "start"
            /\ rule = get_remove_media_rule_oraja
            /\ read_dir(fs0, WorkDir) = {Track(mp4), Track(avi)}) =>
              remove_pairs =
                  IF fs0[join(WorkDir, Track(mp4))].len > 0
                  THEN <<<<join(WorkDir, Track(mp4)), join(WorkDir, Track(avi))>>>>
                  ELSE <<>>

\* under oraja an empty t.mp4 has scheduled nothing while a non-empty
\* t.avi has had t.wmv removed
Wit_C6 ==
    /\ op = "dedup" /\ pc = "done" /\ ret = "ok"
    /\ rule = get_remove_media_rule_oraja
    /\ read_dir(fs0, WorkDir) = {Track(mp4), Track(avi), Track(wmv)}
    /\ fs0[join(WorkDir, Track(mp4))].len = 0
    /\ remove_pairs = <<<<join(WorkDir, Track(avi)), join(WorkDir, Track(wmv))>>>>
    /\ join(WorkDir, Track(wmv)) \notin DOMAIN fs

\* C7: within one pass each path is scheduled at most once, whatever the
\* listing order and however many superior files or rules name it, so
\* remove_file is called at most once per path and never on a path the
\* pass has already deleted.
Thm_C7 ==
    op = "dedup" =>
        /\ \A i, j \in DOMAIN remove_pairs :
              i # j => remove_pairs[i][2] # remove_pairs[j][2]
        /\ Cardinality(removed_files) = Len(remove_pairs)
        /\ \A i, j \in CallsOf("remove_file") : i # j => calls[i].a # calls[j].a
        /\ \A i \in CallsOf("remove_file") : calls[i].a \in DOMAIN fs0

\* under oraja t.wmv, the counterpart of t.mp4, t.avi and t.mpg, has been
\* removed by a single call
Wit_C7 ==
    /\ op = "dedup" /\ pc = "done" /\ ret = "ok"
    /\ rule = get_remove_media_rule_oraja
    /\ \A e \in {mp4, avi, mpg, wmv} :
          /\ join(WorkDir, Track(e)) \in DOMAIN fs0
          /\ fs0[join(WorkDir, Track(e))] = FileEntry(1)
    /\ Cardinality({i \in CallsOf("remove_file") :
                       calls[i].a = join(WorkDir, Track(wmv))}) = 1

-----------------------------------------------------------------------------
(* split_folders_with_first_char, then undo_split_pack on the same root *)

\* the children of the root: two of one bucket and one of another
RoundTripKids == {<<"1">>, <<"a", "b">>, <<"B">>}

\* where the root lies: in the directory "p", or in the working directory
\* (the path of the root is then the one relative component "R")
RoundTripBases == {P, <<>>}

\* what lies beside the root before the split: a bucket of the root that is
\* already there (holding "1"), and a folder that only reads like a bucket
RoundTripBeside(base, pre, sib) ==
    LET b == join(base, BucketDirName(NameR, <<"0", "-", "9">>))
        o == join(base, Sp(<<"R", "x">>, <<"y">>))
    IN  (IF pre THEN {<<b, DirEntry>>, <<join(b, <<"1">>), FileEntry(2)>>} ELSE {})
        \cup (IF sib THEN {<<o, DirEntry>>, <<join(o, <<"s">>), FileEntry(1)>>} ELSE {})

Init_RoundTrip ==
    /\ Fresh("split")
    /\ \E base \in RoundTripBases, pre \in BOOLEAN, sib \in BOOLEAN :
       \E kids \in SubsetsUpTo(RoundTripKids, MaxKids) :
       \E kind \in [kids -> KidKinds] :
          LET root == join(base, NameR)
          IN  /\ fs = MkFs((IF base = <<>> THEN {} ELSE {<<base, DirEntry>>})
                           \cup {<<root, DirEntry>>}
                           \cup RoundTripBeside(base, pre, sib)
                           \cup UNION {KidEntries(root, k, kind[k]) : k \in kids})
              /\ arg_from \in {PathStr(root), PathStr(root) \o <<"/">>}
    /\ fs0 = fs
    /\ arg_to = <<>>
    /\ name_arg = <<>>
    /\ rule = <<>>

\* the split has returned Ok and undo_split_pack is called with the same path
UndoAfterSplit ==
    /\ op = "split" /\ pc = "done" /\ ret = "ok"
    /\ op' = "undo"
    /\ pc' = "start"
    /\ ret' = "none"
    /\ UNCHANGED <<fs, fs0, arg_from, arg_to, root_dir_path,
                   sub_entries, name_arg, label, todo, dir_names,
                   pairs, input, taken, prim, calls, move_count, rule,
                   remove_pairs, removed_files>>

Next_RoundTrip ==
    \/ SplitBegin \/ SplitStep \/ SplitReturn
    \/ UndoAfterSplit
    \/ UndoScan \/ Confirm \/ ExecStep \/ ExecReturn

SpecRoundTrip == Init_RoundTrip /\ [][Next_RoundTrip]_vars

\* the parent of the root held, at the call, no entry named "<R-name> [...]"
NoBucketAtCall ==
    \A n \in read_dir(fs0, parent(arg_from)) :
        ~(starts_with(n, Starter(file_name(arg_from))) /\ ends_with(n, "]"))

\* C11: for a root R whose path does not end in ']' and whose parent held
\* no entry named "<R-name> [...]", once the split of R and then the undo of
\* R, answered with yes, are over, the undo has returned Ok and R has
\* exactly the direct children it had before the split.
Thm_C11 ==
    (/\ op = "undo" /\ pc = "done"
     /\ SaysYes(input)
     /\ ~ends_with(arg_from, "]")
     /\ NoBucketAtCall) =>
        /\ ret = "ok"
        /\ read_dir(fs, Components(arg_from)) = read_dir(fs0, Components(arg_from))

\* two children of one bucket and one of another went out and came back,
\* past a folder beside the root that only reads like a bucket
Wit_C11 ==
    /\ op = "undo" /\ pc = "done" /\ ret = "ok"
    /\ SaysYes(input)
    /\ NoBucketAtCall
    /\ Cardinality(CallsOf("rename")) = 2
    /\ Cardinality(CallsOf("create_dir")) = 2
    /\ Cardinality(CallsOf("merge")) = 2
    /\ join(P, Sp(<<"R", "x">>, <<"y">>)) \in DOMAIN fs
    /\ read_dir(fs, Components(arg_from)) = {<<"1">>, <<"B">>}
    /\ read_dir(fs0, Components(arg_from)) = {<<"1">>, <<"B">>}

-----------------------------------------------------------------------------
(* move_out_works *)

MaxEntries == 3

TargetRoot == <<<<"r">>>>

\* what the target root may hold, as sets of entries below it: works "A"
\* and "X" in the folder "X" (one named as its folder), a loose file in
\* "X", the empty folder "Y", in "Y" a work "A" again and a work "B" that
\* holds a directory, in "Z" a work "A" holding a directory where the other
\* works "A" hold a file, a folder "A" of the root itself, a file of the root
OutPool ==
    {<<<<"X">>, <<"A">>, <<"w">>>>, <<<<"X">>, <<"X">>, <<"v">>>>, <<<<"X">>, <<"l">>>>,
     <<<<"Y">>>>, <<<<"Y">>, <<"A">>, <<"w">>>>, <<<<"Y">>, <<"B">>, <<"d">>, <<"u">>>>,
     <<<<"Z">>, <<"A">>, <<"w">>, <<"z">>>>, <<<<"A">>, <<"q">>>>, <<<<"f">>>>}

\* the entries of one element of OutPool: the last name is a file (the
\* folder "Y" apart), the names before it are directories
OutEntries(e) ==
    {<<TargetRoot \o SubSeq(e, 1, i),
       IF i < Len(e) \/ e = <<<<"Y">>>> THEN DirEntry ELSE FileEntry(1)>> : i \in 1..Len(e)}

Init_MoveOut ==
    /\ Fresh("moveOut")
    /\ \E es \in SubsetsUpTo(OutPool, MaxEntries) :
          fs = MkFs({<<TargetRoot, DirEntry>>} \cup UNION {OutEntries(e) : e \in es})
    /\ fs0 = fs
    /\ arg_from \in {PathStr(TargetRoot), <<"n">>}
    /\ arg_to = <<>>
    /\ name_arg = <<>>
    /\ rule = <<>>

\* a listing as it is logged: each name with whether it is a directory
Listing(f, dir) == {<<n, is_dir(f, join(dir, n))>> : n \in read_dir(f, dir)}

\* the entries an open listing of dir may still return after a call that
\* changed the filesystem from f to g: those it had left, and any of the
\* entries that appeared in dir meanwhile
StreamsAfter(left, f, g, dir) ==
    {left \cup seen : seen \in SUBSET (read_dir(g, dir) \ read_dir(f, dir))}

\* whether fs::remove_dir(p) succeeds: p is an empty directory
remove_dir_ok(f, p) == p \in DOMAIN f /\ f[p].is_dir /\ read_dir(f, p) = {}

\* fs::remove_dir(p)
remove_dir(f, p) == Without(f, {p})

\* faulty variant: the folder is taken for empty without a look
next_is_none_unchecked(f, dir) == TRUE

\* check_entries.next().await.is_none(), for a listing of dir opened now
next_is_none(f, dir) == read_dir(f, dir) = {}

\* target_root_dir.join(work_dir_name)
target_work_dir_path(target_root_dir, work_dir_name) ==
    join(target_root_dir, work_dir_name)

\* lines 390-391: the listing of the target root is opened
MoveOutBegin ==
    /\ op = "moveOut" /\ pc = "start"
    /\ IF ~read_dir_ok(fs, Components(arg_from))
       THEN Return("err") /\ UNCHANGED <<todo, prim>>
       ELSE /\ todo' = read_dir(fs, Components(arg_from))
            /\ prim' \in Prims
            /\ pc' = "outer" /\ ret' = ret
    /\ UNCHANGED <<op, fs, fs0, arg_from, arg_to, name_arg, label, dir_names,
                   pairs, input, taken, calls, move_count, rule, remove_pairs,
                   removed_files, root_dir_path, sub_entries>>

\* lines 392-400: one entry of the root; a directory's listing is opened
MoveOutEnter ==
    /\ op = "moveOut" /\ pc = "outer"
    /\ \E name \in todo :
        LET path == join(Components(arg_from), name)
        IN  /\ todo' = todo \ {name}
            /\ IF ~is_dir(fs, path)
               THEN UNCHANGED <<pc, root_dir_path, sub_entries, calls>>
               ELSE /\ root_dir_path' = path
                    /\ sub_entries' = read_dir(fs, path)
                    /\ calls' = Append(calls, Call("list", path, Listing(fs, path)))
                    /\ pc' = "inner"
    /\ UNCHANGED <<op, ret, fs, fs0, arg_from, arg_to, name_arg, label, dir_names,
                   pairs, input, taken, prim, move_count, rule, remove_pairs,
                   removed_files>>

\* lines 401-422: one entry of the folder; a directory is merged into the
\* folder of its name in the target root
MoveOutWork ==
    /\ op = "moveOut" /\ pc = "inner"
    /\ \E work_dir_name \in sub_entries :
        LET work_dir_path == join(root_dir_path, work_dir_name)
            target == target_work_dir_path(Components(arg_from), work_dir_name)
        IN  IF ~is_dir(fs, work_dir_path)
            THEN /\ sub_entries' = sub_entries \ {work_dir_name}
                 /\ UNCHANGED <<fs, calls, pc, ret, todo>>
            ELSE /\ MergeCall(work_dir_path, target)
                 /\ sub_entries' \in StreamsAfter(sub_entries \ {work_dir_name},
                                                  fs, fs', root_dir_path)
                 /\ todo' \in StreamsAfter(todo, fs, fs', Components(arg_from))
    /\ UNCHANGED <<op, fs0, arg_from, arg_to, name_arg, label, dir_names,
                   pairs, input, taken, prim, move_count, rule, remove_pairs,
                   removed_files, root_dir_path>>

\* lines 424-428: the folder is listed afresh and removed if nothing is there
MoveOutCheck ==
    /\ op = "moveOut" /\ pc = "inner" /\ sub_entries = {}
    /\ LET look == Call("check", root_dir_path, Listing(fs, root_dir_path))
           gone == Call("remove_dir", root_dir_path, <<>>)
       IN  IF ~next_is_none(fs, root_dir_path)
           THEN /\ calls' = Append(calls, look)
                /\ pc' = "outer"
                /\ UNCHANGED <<fs, ret>>
           ELSE /\ calls' = calls \o <<look, gone>>
                /\ IF remove_dir_ok(fs, root_dir_path)
                   THEN /\ fs' = remove_dir(fs, root_dir_path)
                        /\ pc' = "outer" /\ ret' = ret
                   ELSE fs' = fs /\ Return("err")
    /\ root_dir_path' = None
    /\ UNCHANGED <<op, fs0, arg_from, arg_to, name_arg, label, todo, dir_names,
                   pairs, input, taken, prim, move_count, rule, remove_pairs,
                   removed_files, sub_entries>>

\* lines 429-431: the listing of the root is exhausted
MoveOutReturn ==
    /\ op = "moveOut" /\ pc = "outer" /\ todo = {}
    /\ Return("ok")
    /\ UNCHANGED <<op, fs, fs0, arg_from, arg_to, name_arg, label, todo, dir_names,
                   pairs, input, taken, prim, calls, move_count, rule, remove_pairs,
                   removed_files, root_dir_path, sub_entries>>

Next_MoveOut ==
    MoveOutBegin \/ MoveOutEnter \/ MoveOutWork \/ MoveOutCheck \/ MoveOutReturn

SpecMoveOut == Init_MoveOut /\ [][Next_MoveOut]_vars

\* the log holds at position i the call f on the folder dir
IsCall(i, f, dir) == i \in DOMAIN calls /\ calls[i].f = f /\ calls[i].a = dir

\* position j opens the listing of dir that the call at position i works in
OpensFor(j, i, dir) ==
    /\ j < i /\ IsCall(j, "list", dir)
    /\ \A k \in (j + 1)..(i - 1) :
          ~IsCall(k, "list", dir) /\ ~IsCall(k, "check", dir)

\* C12: the fresh listing of an intermediate folder is made only after
\* every directory its own listing held was merged into <root>/<same name>,
\* and no work is merged out of it after that; the folder is removed if and
\* only if that fresh listing is empty; so a folder holding a loose file at
\* the call, or anything else at the check, is not removed.
Thm_C12 ==
    LET root == Components(arg_from)
    IN  /\ \A i \in CallsOf("check") :
            LET dir == calls[i].a
            IN  /\ \E j \in DOMAIN calls :
                      /\ OpensFor(j, i, dir)
                      /\ \A e \in calls[j].b : e[2] =>
                            \E k \in (j + 1)..(i - 1) :
                               /\ calls[k].f = "merge"
                               /\ calls[k].a = join(dir, e[1])
                               /\ calls[k].b = join(root, e[1])
                /\ (calls[i].b = {}) <=> IsCall(i + 1, "remove_dir", dir)
        /\ \A k \in CallsOf("merge") :
              \E j \in DOMAIN calls : OpensFor(j, k, Front(calls[k].a))
        /\ \A m \in CallsOf("remove_dir") :
              /\ IsCall(m - 1, "check", calls[m].a)
              /\ calls[m - 1].b = {}
              /\ Len(calls[m].a) = Len(root) + 1
        /\ \A q \in DOMAIN fs0 :
              (Len(q) = Len(root) + 2 /\ Below(root, q) /\ ~fs0[q].is_dir) =>
                  (q \in DOMAIN fs /\ Front(q) \in DOMAIN fs)

\* the folder "Y" was removed after its two works were merged into the
\* root, and the folder "X" was looked at and kept for its loose file
Wit_C12 ==
    LET X == join(TargetRoot, <<"X">>)
        Y == join(TargetRoot, <<"Y">>)
    IN  /\ op = "moveOut" /\ pc = "done" /\ ret = "ok"
        /\ \E m \in CallsOf("remove_dir") :
              /\ calls[m].a = Y
              /\ Cardinality({k \in CallsOf("merge") : k < m /\ Front(calls[k].a) = Y}) = 2
        /\ Y \notin DOMAIN fs
        /\ \E i \in CallsOf("check") :
              calls[i].a = X /\ calls[i].b = {<<<<"l">>, FALSE>>}
        /\ join(X, <<"l">>) \in DOMAIN fs
        /\ CallsOf("remove_dir") = {m \in DOMAIN calls : calls[m].a = Y /\ calls[m].f = "remove_dir"}

-----------------------------------------------------------------------------
(* The dedup pass under the built-in presets, over files of several stems *)

MaxMedia == 3

\* <stem>.<ext>
Media(stem, ext) == stem \o <<".">> \o ext

\* the names a work folder may hold: the formats of the presets under the
\* stem "t", two of them under the stem "u", and a file whose whole name is
\* an extension beside a file that has it for its stem
StemPool ==
    {Media(<<"t">>, mp4), Media(<<"t">>, avi), Media(<<"t">>, wmv),
     Media(<<"t">>, mpg), Media(<<"t">>, flac), Media(<<"t">>, wav),
     Media(<<"u">>, avi), Media(<<"u">>, wmv), mpg, Media(mpg, wmv)}

\* the preset tables
Presets == {get_remove_media_file_rules[i] : i \in DOMAIN get_remove_media_file_rules}

Init_DedupPresets ==
    /\ Fresh("dedup")
    /\ \E files \in SubsetsUpTo(StemPool, MaxMedia) :
       \E kind \in [files -> {FileEntry(0), FileEntry(1)}] :
          fs = MkFs({<<WorkDir, DirEntry>>}
                    \cup {<<join(WorkDir, n), kind[n]>> : n \in files})
    /\ fs0 = fs
    /\ arg_from = PathStr(WorkDir)
    /\ arg_to = <<>>
    /\ name_arg = <<>>
    /\ rule \in Presets

SpecDedupPresets == Init_DedupPresets /\ [][Next_Dedup]_vars

\* Path::file_stem: the name before its last '.'; the whole name when it
\* has no '.', or only a leading one
StemOf(name) ==
    IF LastDot(name) <= 1 THEN name ELSE SubSeq(name, 1, LastDot(name) - 1)

\* the files the pass has deleted
Deleted == DOMAIN fs0 \ DOMAIN fs

\* C13: under each built-in preset, in every listing order, every file the
\* dedup pass has deleted leaves behind a file of the same stem that has
\* content and was not deleted, also when the file recorded as the reason
\* of the deletion is deleted itself.
Thm_C13 ==
    (op = "dedup" /\ rule \in Presets) =>
        \A p \in Deleted :
            \E q \in DOMAIN fs :
                /\ q \in DOMAIN fs0
                /\ is_file(fs, q)
                /\ fs[q].len > 0
                /\ Front(q) = Front(p)
                /\ StemOf(Last(q)) = StemOf(Last(p))

\* t.wmv went because of t.avi, t.avi went because of t.mp4, and t.mp4 is
\* what is left of the stem
Wit_C13 ==
    LET at(e) == join(WorkDir, Media(<<"t">>, e))
    IN  /\ op = "dedup" /\ pc = "done" /\ ret = "ok"
        /\ rule = get_remove_media_rule_oraja
        /\ \E i, j \in DOMAIN remove_pairs :
              /\ remove_pairs[i] = <<at(avi), at(wmv)>>
              /\ remove_pairs[j] = <<at(mp4), at(avi)>>
        /\ Deleted = {at(avi), at(wmv)}
        /\ is_file(fs, at(mp4)) /\ fs[at(mp4)].len > 0

=============================================================================
